---------------------------- MODULE Spec2Model ----------------------------
(***************************************************************************)
(* A model of json-carver (src/src/lib.rs): Carver::parse, the scout, the  *)
(* hunt dispatcher with its nine handlers, and the JsonTracker.            *)
(*                                                                         *)
(* The byte source is a stream: every read draws the next byte from        *)
(* Alphabet, or end of stream, and `input` records what the source has     *)
(* delivered so far.  A behaviour of the model is one run of parse over    *)
(* one input of at most MaxLen bytes.  A handler's byte loop advances one  *)
(* byte per step; everything a step does to the tracker is in that step.   *)
(***************************************************************************)
EXTENDS Integers, Sequences, FiniteSets, TLC

(* ------------------------------ constants ------------------------------ *)
CHAR_LEFT_SQUARE_BRACKET == 91
CHAR_LEFT_CURLY_BRACKET == 123
CHAR_RIGHT_SQUARE_BRACKET == 93
CHAR_RIGHT_CURLY_BRACKET == 125
CHAR_COLON == 58
CHAR_COMMA == 44
CHAR_SPACE == 32
CHAR_TAB == 9
CHAR_NEWLINE == 10
CHAR_CARRIAGE_RETURN == 13
CHAR_START_FALSE == 102
CHAR_START_NULL == 110
CHAR_START_TRUE == 116
CHAR_MINUS == 45
CHAR_PLUS == 43
CHAR_ZERO == 48
CHAR_NINE == 57
CHAR_DECIMAL == 46
CHAR_EXP_LOWER == 101
CHAR_EXP_UPPER == 69
CHAR_QUOT_MARK == 34
CHAR_ESCAPE == 92
CHAR_SLASH == 47
CHAR_ESC_BACKSPACE == 98
CHAR_ESC_FORM_FEED == 102
CHAR_ESC_LINE_FEED == 110
CHAR_ESC_CARRIAGE_RETURN == 114
CHAR_ESC_TAB == 116
CHAR_U == 117

\* Bytes of the literals' tails and of the test inputs that have no constant
\* of their own in the source.
CHAR_ONE == 49
CHAR_A == 97
CHAR_L == 108
CHAR_S == 115
CHAR_H == 104
CHAR_UNIT_SEPARATOR == 31

(* -------------------------------- bounds ------------------------------- *)
\* Longest input stream, in bytes, over the structural and the value bytes.
MaxLen == 5
\* Longest input stream, in bytes, over the string bytes.
MaxLenStr == 6
\* Longest input stream, in bytes, over the bytes of \u escapes.
MaxLenHex == 8
\* Longest input stream, in bytes, over the bytes of objects' members.
MaxLenObj == 7
\* Longest input stream, in bytes, of the runs checked for termination.
MaxLenFair == 4
\* Carver::new's max_size: the initial length of the candidate buffer.
max_size == 2
\* Carver::new's max_ident_depth: the length of the nest stack's storage.
max_ident_depth == 4

\* The byte sources of the runs: the bytes a stream is made of and its
\* longest length.  Structural bytes with whitespace and a stray byte; the
\* bytes of an object's members; the bytes of an array of strings.
StructBytes ==
    { CHAR_LEFT_SQUARE_BRACKET, CHAR_LEFT_CURLY_BRACKET,
      CHAR_RIGHT_SQUARE_BRACKET, CHAR_RIGHT_CURLY_BRACKET,
      CHAR_COMMA, CHAR_NEWLINE, CHAR_H }
MemberBytes ==
    { CHAR_LEFT_CURLY_BRACKET, CHAR_RIGHT_CURLY_BRACKET, CHAR_QUOT_MARK,
      CHAR_COLON, CHAR_ONE, CHAR_START_NULL }
StringBytes ==
    { CHAR_LEFT_SQUARE_BRACKET, CHAR_RIGHT_SQUARE_BRACKET, CHAR_QUOT_MARK,
      CHAR_COMMA, CHAR_UNIT_SEPARATOR }
Readers ==
    { [alphabet |-> StructBytes, len |-> MaxLen],
      [alphabet |-> MemberBytes, len |-> MaxLen],
      [alphabet |-> StringBytes, len |-> MaxLenStr] }

\* The values of Carver::min_size the runs are configured with.
MinSizes == {0, 3}

Openers == {CHAR_LEFT_SQUARE_BRACKET, CHAR_LEFT_CURLY_BRACKET}
Whitespace == {CHAR_SPACE, CHAR_TAB, CHAR_NEWLINE, CHAR_CARRIAGE_RETURN}
Digits == CHAR_ZERO..CHAR_NINE
\* is_ascii_hexdigit taking every ASCII letter.
HexDigits_any_letter == Digits \cup (65..90) \cup (97..122)

HexDigits == Digits \cup (65..70) \cup (97..102)

\* Option<T>: None is the empty sequence, Some(x) the one-element sequence.
None == << >>
Some(x) == << x >>

(* --------------------------------- Cause ------------------------------- *)
Found(b) == [tag |-> "Found", b |-> b]
Corrupted(b) == [tag |-> "Corrupted", b |-> b]
Completed == [tag |-> "Completed", b |-> 0]
Exhausted == [tag |-> "Exhausted", b |-> 0]
\* Not Causes: the handler's loop goes on to its next byte; the handler panics.
Continue == [tag |-> "Continue", b |-> 0]
Panicked == [tag |-> "Panicked", b |-> 0]

(* ------------------------------ pure helpers --------------------------- *)
byte_needs_escape(b) == b < 31

\* byte_can_escape letting every byte follow a backslash.
byte_can_escape_any(b) == TRUE

byte_can_escape(b) ==
    b \in { CHAR_QUOT_MARK, CHAR_ESCAPE, CHAR_SLASH, CHAR_ESC_BACKSPACE,
            CHAR_ESC_FORM_FEED, CHAR_ESC_LINE_FEED, CHAR_ESC_CARRIAGE_RETURN,
            CHAR_ESC_TAB, CHAR_U }

closing_ident(b) == b + 2

(* ------------------------------ JsonTracker ---------------------------- *)
JsonTracker_new(replace) ==
    [ cur |-> 0,
      partial_close_end |-> 0,
      ident_levels |-> [i \in 1..max_ident_depth |-> 0],
      cur_ident_level |-> 0,
      in_key |-> FALSE,
      processed |-> [i \in 1..max_size |-> 0],
      replace_newlines |-> replace ]

\* advance moving the bookmark to the byte it appends.
advance_moves_bookmark(t, b0) ==
    LET b == IF t.replace_newlines /\ b0 = CHAR_NEWLINE THEN CHAR_SPACE ELSE b0
    IN  [t EXCEPT
          !.processed = IF t.cur < Len(t.processed)
                          THEN [t.processed EXCEPT ![t.cur + 1] = b]
                          ELSE Append(t.processed, b),
          !.partial_close_end = t.cur,
          !.cur = t.cur + 1]

\* advance with the newline substitution made whatever replace_newlines says.
advance_always_replaces(t, b0) ==
    LET b == IF b0 = CHAR_NEWLINE THEN CHAR_SPACE ELSE b0
    IN  [t EXCEPT
          !.processed = IF t.cur < Len(t.processed)
                          THEN [t.processed EXCEPT ![t.cur + 1] = b]
                          ELSE Append(t.processed, b),
          !.cur = t.cur + 1]

advance(t, b0) ==
    LET b == IF t.replace_newlines /\ b0 = CHAR_NEWLINE THEN CHAR_SPACE ELSE b0
    IN  [t EXCEPT
          !.processed = IF t.cur < Len(t.processed)
                          THEN [t.processed EXCEPT ![t.cur + 1] = b]
                          ELSE Append(t.processed, b),
          !.cur = t.cur + 1]

last_byte(t) == IF t.cur = 0 THEN None ELSE Some(t.processed[t.cur])

last_ident(t) ==
    IF t.cur_ident_level = 0 THEN None
    ELSE Some(t.ident_levels[t.cur_ident_level])

\* add_ident on a nest stack whose storage grows as needed.
add_ident_unbounded(t) == TRUE

\* The index add_ident writes is in the nest stack's storage; past it the
\* indexing panics.
add_ident_in_bounds(t) == t.cur_ident_level + 1 <= Len(t.ident_levels)

\* add_ident with the bookmark taken after the opener is appended.
add_ident_bookmarks_late(t, b) ==
    LET t1 == advance([t EXCEPT !.cur_ident_level = t.cur_ident_level + 1,
                                !.ident_levels[t.cur_ident_level + 1] = b], b)
    IN  [t1 EXCEPT !.partial_close_end = t1.cur]

add_ident(t, b) ==
    advance([t EXCEPT !.cur_ident_level = t.cur_ident_level + 1,
                      !.ident_levels[t.cur_ident_level + 1] = b,
                      !.partial_close_end = t.cur], b)

\* remove_ident appending the opener it pops in place of its closer.
remove_ident_appends_opener(t, expected) ==
    IF last_ident(t) # Some(expected)
      THEN [ok |-> FALSE, done |-> FALSE, jt |-> t]
      ELSE LET t1 == advance([t EXCEPT !.partial_close_end = t.cur,
                                       !.cur_ident_level = t.cur_ident_level - 1],
                             expected)
           IN  [ok |-> TRUE, done |-> (t1.cur_ident_level = 0), jt |-> t1]

\* remove_ident answering Ok(false) for the pop that empties the stack.
remove_ident_never_done(t, expected) ==
    IF last_ident(t) # Some(expected)
      THEN [ok |-> FALSE, done |-> FALSE, jt |-> t]
      ELSE [ok |-> TRUE, done |-> FALSE,
            jt |-> advance([t EXCEPT !.partial_close_end = t.cur,
                                     !.cur_ident_level = t.cur_ident_level - 1],
                           closing_ident(expected))]

\* remove_ident moving the bookmark before it looks at the top of the stack.
remove_ident_bookmarks_first(t, expected) ==
    LET t0 == [t EXCEPT !.partial_close_end = t.cur] IN
    IF last_ident(t) # Some(expected)
      THEN [ok |-> FALSE, done |-> FALSE, jt |-> t0]
      ELSE LET t1 == advance([t0 EXCEPT !.cur_ident_level = t.cur_ident_level - 1],
                             closing_ident(expected))
           IN  [ok |-> TRUE, done |-> (t1.cur_ident_level = 0), jt |-> t1]

\* Result<bool, ()>: ok is FALSE for Err(()), and then the tracker is as it was.
remove_ident(t, expected) ==
    IF last_ident(t) # Some(expected)
      THEN [ok |-> FALSE, done |-> FALSE, jt |-> t]
      ELSE LET t1 == advance([t EXCEPT !.partial_close_end = t.cur,
                                       !.cur_ident_level = t.cur_ident_level - 1],
                             closing_ident(expected))
           IN  [ok |-> TRUE, done |-> (t1.cur_ident_level = 0), jt |-> t1]

quick_clean(t) ==
    [t EXCEPT !.cur = 0, !.partial_close_end = 0, !.cur_ident_level = 0,
              !.in_key = FALSE]

(* -------------------------------- state -------------------------------- *)
VARIABLES
    reader,         \* the byte source: the bytes it is made of, its longest length
    input,          \* the bytes the source has delivered, all of them consumed
    jt,             \* Carver::jt
    min_size,       \* Carver::min_size
    fix_incomplete, \* Carver::fix_incomplete
    json_writer,    \* the bytes written to the JSON sink
    report_writer,  \* the records written to the report sink, one per line
    start,          \* parse's start
    lastb,          \* parse's lastb
    pc,             \* where parse is
    ch,             \* hunt's ch, the byte being dispatched
    res,            \* the Cause hunt returned to parse
    loc,            \* the running handler's local variables
    cands,          \* observation: one record per candidate parse has matched
    writes          \* observation: the write_all calls on both sinks, in order

vars == << reader, input, jt, min_size, fix_incomplete, json_writer, report_writer,
           start, lastb, pc, ch, res, loc, cands, writes >>

\* The locals of handle_string, handle_number and handle_literal.
NoLoc ==
    [ in_string |-> FALSE, in_escape |-> FALSE, in_escaped_unicode |-> 0,
      in_frac |-> FALSE, in_exp |-> FALSE, in_leading_zero |-> None,
      literal |-> << >>, i |-> 0 ]

\* replace_newlines acts on byte 0x0A alone (advance), so the runs over a
\* source without that byte leave it unset.
Init ==
    /\ reader \in Readers
    /\ input = << >>
    /\ \E r \in (IF CHAR_NEWLINE \in reader.alphabet THEN BOOLEAN ELSE {FALSE}) :
          jt = JsonTracker_new(r)
    /\ min_size \in MinSizes
    /\ fix_incomplete \in BOOLEAN
    /\ json_writer = << >>
    /\ report_writer = << >>
    /\ start = 0
    /\ lastb = None
    /\ pc = "parse_loop"
    /\ ch = 0
    /\ res = Completed
    /\ loc = NoLoc
    /\ cands = << >>
    /\ writes = << >>

(* ------------------------------ byte source ---------------------------- *)
\* A reader with a replay field delivers exactly those bytes; the others
\* deliver any stream over their alphabet of at most len bytes.
Replaying == "replay" \in DOMAIN reader

\* The bytes the stream can hold at the 0-based offset k.
Stream(k) ==
    IF k >= reader.len THEN {}
    ELSE IF Replaying THEN {reader.replay[k + 1]}
    ELSE reader.alphabet

\* Whether the stream can end at offset k.
AtEnd(k) == Replaying => k = reader.len

\* The bytes the next read can return.
Source == Stream(Len(input))


(* ------------------------- the handlers' byte loops -------------------- *)
\* What one pass of a handler's `for b in bytes()` loop does with byte b, on
\* tracker t and locals l: the Cause it returns (or Continue), the tracker
\* and the locals after it.
Outcome(c, t, l) == [cause |-> c, jt |-> t, loc |-> l]

ValueStarts ==
    { CHAR_LEFT_CURLY_BRACKET, CHAR_LEFT_SQUARE_BRACKET, CHAR_MINUS,
      CHAR_QUOT_MARK, CHAR_START_FALSE, CHAR_START_NULL, CHAR_START_TRUE }
      \cup Digits

Closers == {CHAR_COMMA, CHAR_RIGHT_SQUARE_BRACKET, CHAR_RIGHT_CURLY_BRACKET}

\* handle_left_square_bracket's loop handing every byte that is no whitespace
\* to hunt.
left_square_bracket_byte_finds_any(t, l, b) ==
    IF b \in Whitespace THEN Outcome(Continue, advance(t, b), l)
    ELSE Outcome(Found(b), t, l)

left_square_bracket_byte(t, l, b) ==
    IF b \in ValueStarts \cup {CHAR_RIGHT_SQUARE_BRACKET}
      THEN Outcome(Found(b), t, l)
    ELSE IF b \in Whitespace THEN Outcome(Continue, advance(t, b), l)
    ELSE Outcome(Corrupted(b), t, l)

\* handle_left_curly_bracket's loop with whitespace read and not appended.
left_curly_bracket_byte_drops_whitespace(t, l, b) ==
    IF b = CHAR_QUOT_MARK
      THEN Outcome(Found(b), [t EXCEPT !.in_key = TRUE], l)
    ELSE IF b = CHAR_RIGHT_CURLY_BRACKET THEN Outcome(Found(b), t, l)
    ELSE IF b \in Whitespace THEN Outcome(Continue, t, l)
    ELSE Outcome(Corrupted(b), t, l)

left_curly_bracket_byte(t, l, b) ==
    IF b = CHAR_QUOT_MARK
      THEN Outcome(Found(b), [t EXCEPT !.in_key = TRUE], l)
    ELSE IF b = CHAR_RIGHT_CURLY_BRACKET THEN Outcome(Found(b), t, l)
    ELSE IF b \in Whitespace THEN Outcome(Continue, advance(t, b), l)
    ELSE Outcome(Corrupted(b), t, l)

\* The loop of handle_right_square_bracket and of handle_right_curly_bracket,
\* and the second loop of handle_literal.
after_value_byte(t, l, b) ==
    IF b \in Closers THEN Outcome(Found(b), t, l)
    ELSE IF b \in Whitespace THEN Outcome(Continue, advance(t, b), l)
    ELSE Outcome(Corrupted(b), t, l)

colon_byte(t, l, b) ==
    IF b \in ValueStarts THEN Outcome(Found(b), t, l)
    ELSE IF b \in Whitespace THEN Outcome(Continue, advance(t, b), l)
    ELSE Outcome(Corrupted(b), t, l)

\* handle_comma's two loops, chosen by the top of the nest stack.
comma_byte(t, l, b) ==
    IF last_ident(t) = Some(CHAR_LEFT_SQUARE_BRACKET)
      THEN colon_byte(t, l, b)
      ELSE IF b = CHAR_QUOT_MARK
             THEN Outcome(Found(b), [t EXCEPT !.in_key = TRUE], l)
           ELSE IF b \in Whitespace THEN Outcome(Continue, advance(t, b), l)
           ELSE Outcome(Corrupted(b), t, l)

string_byte(t, l, b) ==
    LET top == last_ident(t)[1]
        ok(l1) == Outcome(Continue, advance(t, b), l1)
        bad == Outcome(Corrupted(b), t, l)
    IN
    IF last_ident(t) = None THEN Outcome(Panicked, t, l)   \* unwrap()
    ELSE IF ~l.in_string THEN
        IF b \in Whitespace THEN ok(l)
        ELSE IF /\ b \in {CHAR_COMMA, CHAR_RIGHT_SQUARE_BRACKET}
                /\ top = CHAR_LEFT_SQUARE_BRACKET
          THEN Outcome(Found(b), t, l)
        ELSE IF /\ b \in {CHAR_COMMA, CHAR_RIGHT_CURLY_BRACKET}
                /\ top = CHAR_LEFT_CURLY_BRACKET
                /\ ~t.in_key
          THEN Outcome(Found(b), t, l)
        ELSE IF b = CHAR_COLON /\ top = CHAR_LEFT_CURLY_BRACKET /\ t.in_key
          THEN Outcome(Found(b), t, l)
        ELSE bad
    ELSE
        IF b = CHAR_ESCAPE /\ ~l.in_escape /\ l.in_escaped_unicode = 0
          THEN ok([l EXCEPT !.in_escape = TRUE])
        ELSE IF b = CHAR_QUOT_MARK /\ ~l.in_escape /\ l.in_escaped_unicode = 0
          THEN ok([l EXCEPT !.in_string = FALSE])
        ELSE IF b >= 0 /\ b < 31 THEN bad
        ELSE IF ~l.in_escape /\ l.in_escaped_unicode = 0
          THEN IF byte_needs_escape(b) THEN bad ELSE ok(l)
        ELSE IF b = CHAR_U /\ l.in_escape /\ l.in_escaped_unicode = 0
          THEN ok([l EXCEPT !.in_escaped_unicode = 4, !.in_escape = FALSE])
        ELSE IF l.in_escape /\ l.in_escaped_unicode = 0
          THEN IF byte_can_escape(b) THEN ok([l EXCEPT !.in_escape = FALSE])
               ELSE bad
        ELSE IF l.in_escaped_unicode \in 1..4
          THEN IF b \in HexDigits
                 THEN ok([l EXCEPT !.in_escaped_unicode = l.in_escaped_unicode - 1])
                 ELSE bad
        ELSE bad

\* handle_number's loop without the check for leading zeroes.
number_byte_allows_leading_zero(t, l, b) ==
    LET last == last_byte(t)[1]
        lz1 == IF l.in_leading_zero = None
                 THEN IF last = CHAR_MINUS THEN None
                      ELSE IF last = CHAR_ZERO THEN Some(TRUE)
                      ELSE Some(FALSE)
                 ELSE l.in_leading_zero
        lz2 == IF lz1 = Some(TRUE) THEN Some(FALSE) ELSE lz1
        l2 == [l EXCEPT !.in_leading_zero = lz2]
        ok(l1) == Outcome(Continue, advance(t, b), l1)
        bad == Outcome(Corrupted(b), t, l)
    IN
    IF last \in {CHAR_MINUS, CHAR_PLUS, CHAR_DECIMAL} /\ b \in Digits
      THEN ok(l2)
    ELSE IF /\ last \in {CHAR_EXP_LOWER, CHAR_EXP_UPPER}
            /\ b \in Digits \cup {CHAR_MINUS, CHAR_PLUS}
      THEN ok(l2)
    ELSE IF /\ last \in Digits
            /\ b \in Digits \cup {CHAR_SPACE, CHAR_TAB, CHAR_NEWLINE}
      THEN ok(l2)
    ELSE IF last \in Digits /\ b = CHAR_DECIMAL
      THEN IF l.in_frac \/ l.in_exp THEN bad
           ELSE ok([l2 EXCEPT !.in_frac = TRUE])
    ELSE IF last \in Digits /\ b \in {CHAR_EXP_LOWER, CHAR_EXP_UPPER}
      THEN IF l.in_exp THEN bad ELSE ok([l2 EXCEPT !.in_exp = TRUE])
    ELSE IF last \in Whitespace \cup Digits /\ b \in Closers
      THEN Outcome(Found(b), t, l)
    ELSE bad

number_byte(t, l, b) ==
    LET last == last_byte(t)[1]
        lz1 == IF l.in_leading_zero = None
                 THEN IF last = CHAR_MINUS THEN None
                      ELSE IF last = CHAR_ZERO THEN Some(TRUE)
                      ELSE Some(FALSE)
                 ELSE l.in_leading_zero
        lz2 == IF lz1 = Some(TRUE) THEN Some(FALSE) ELSE lz1
        l2 == [l EXCEPT !.in_leading_zero = lz2]
        ok(l1) == Outcome(Continue, advance(t, b), l1)
        bad == Outcome(Corrupted(b), t, l)
    IN
    IF lz1 = Some(TRUE) /\ b \in Digits THEN bad
    ELSE IF last \in {CHAR_MINUS, CHAR_PLUS, CHAR_DECIMAL} /\ b \in Digits
      THEN ok(l2)
    ELSE IF /\ last \in {CHAR_EXP_LOWER, CHAR_EXP_UPPER}
            /\ b \in Digits \cup {CHAR_MINUS, CHAR_PLUS}
      THEN ok(l2)
    ELSE IF /\ last \in Digits
            /\ b \in Digits \cup {CHAR_SPACE, CHAR_TAB, CHAR_NEWLINE}
      THEN ok(l2)
    ELSE IF last \in Digits /\ b = CHAR_DECIMAL
      THEN IF l.in_frac \/ l.in_exp THEN bad
           ELSE ok([l2 EXCEPT !.in_frac = TRUE])
    ELSE IF last \in Digits /\ b \in {CHAR_EXP_LOWER, CHAR_EXP_UPPER}
      THEN IF l.in_exp THEN bad ELSE ok([l2 EXCEPT !.in_exp = TRUE])
    ELSE IF last \in Whitespace \cup Digits /\ b \in Closers
      THEN Outcome(Found(b), t, l)
    ELSE bad

literal_tail(start_char) ==
    IF start_char = CHAR_START_FALSE
      THEN << CHAR_A, CHAR_L, CHAR_S, CHAR_EXP_LOWER >>
    ELSE IF start_char = CHAR_START_NULL THEN << CHAR_U, CHAR_L, CHAR_L >>
    ELSE << CHAR_ESC_CARRIAGE_RETURN, CHAR_U, CHAR_EXP_LOWER >>

\* loc.i counts the bytes of the tail matched so far; the first loop runs
\* while a byte of the tail is missing, the second afterwards.
literal_byte(t, l, b) ==
    IF l.i < Len(l.literal)
      THEN IF l.literal[l.i + 1] # b THEN Outcome(Corrupted(b), t, l)
           ELSE Outcome(Continue, advance(t, b), [l EXCEPT !.i = l.i + 1])
      ELSE after_value_byte(t, l, b)

(* ---------------------------- hunt's handlers -------------------------- *)
\* A handler returns r.cause to hunt: Found(b) makes hunt dispatch on b, the
\* other Causes make hunt return them to parse.
Deliver(r) ==
    /\ jt' = r.jt
    /\ IF r.cause.tag = "Continue"
         THEN /\ loc' = r.loc
              /\ UNCHANGED << pc, ch, res >>
       ELSE IF r.cause.tag = "Found"
         THEN /\ loc' = NoLoc
              /\ ch' = r.cause.b
              /\ pc' = "hunt"
              /\ UNCHANGED res
       ELSE IF r.cause.tag = "Panicked"
         THEN /\ loc' = NoLoc
              /\ pc' = "panicked"
              /\ UNCHANGED << ch, res >>
       ELSE /\ loc' = NoLoc
            /\ res' = r.cause
            /\ pc' = "parse_match"
            /\ UNCHANGED ch

\* The handlers leave parse's variables and the sinks alone.
HandlerFrame ==
    UNCHANGED << reader, min_size, fix_incomplete, json_writer, report_writer, start,
                 lastb, cands, writes >>

\* hunt calls the handler of ch, which runs up to its loop: t is the tracker
\* and l the locals the loop starts with.
Enter(name, t, l) ==
    /\ jt' = t
    /\ loc' = l
    /\ pc' = name
    /\ UNCHANGED << input, ch, res >>
    /\ HandlerFrame

\* The loop body of the handler that is running.
loop_body(name, t, l, b) ==
    CASE name = "left_square_bracket" -> left_square_bracket_byte(t, l, b)
      [] name = "left_curly_bracket" -> left_curly_bracket_byte(t, l, b)
      [] name \in {"right_square_bracket", "right_curly_bracket"} ->
            after_value_byte(t, l, b)
      [] name = "colon" -> colon_byte(t, l, b)
      [] name = "comma" -> comma_byte(t, l, b)
      [] name = "string" -> string_byte(t, l, b)
      [] name = "number" -> number_byte(t, l, b)
      [] name = "literal" -> literal_byte(t, l, b)

\* One pass of the loop `for b in self.reader.mut_ref().bytes()`: the source
\* delivers a byte, or is at its end and the handler returns Exhausted.
ReadByte(name) ==
    /\ pc = name
    /\ \/ \E b \in Source :
            /\ input' = Append(input, b)
            /\ Deliver(loop_body(name, jt, loc, b))
       \/ /\ AtEnd(Len(input))
          /\ input' = input
          /\ Deliver(Outcome(Exhausted, jt, loc))
    /\ HandlerFrame

Panic ==
    /\ pc' = "panicked"
    /\ UNCHANGED << input, jt, ch, res, loc >>
    /\ HandlerFrame

handle_left_square_bracket ==
    \/ /\ pc = "hunt" /\ ch = CHAR_LEFT_SQUARE_BRACKET
       /\ IF add_ident_in_bounds(jt)
            THEN Enter("left_square_bracket",
                       add_ident(jt, CHAR_LEFT_SQUARE_BRACKET), NoLoc)
            ELSE Panic
    \/ ReadByte("left_square_bracket")

handle_left_curly_bracket ==
    \/ /\ pc = "hunt" /\ ch = CHAR_LEFT_CURLY_BRACKET
       /\ IF add_ident_in_bounds(jt)
            THEN Enter("left_curly_bracket",
                       add_ident(jt, CHAR_LEFT_CURLY_BRACKET), NoLoc)
            ELSE Panic
    \/ ReadByte("left_curly_bracket")

\* The closers' first statement going on to the loop after the pop that
\* emptied the nest stack.
Close_goes_on(name, opener) ==
    LET r == remove_ident(jt, opener) IN
    IF ~r.ok
      THEN /\ Deliver(Outcome(Corrupted(closing_ident(opener)), r.jt, loc))
           /\ UNCHANGED input
           /\ HandlerFrame
    ELSE Enter(name, r.jt, NoLoc)

\* The closers' first statement: the match on remove_ident(opener).
Close(name, opener) ==
    LET r == remove_ident(jt, opener) IN
    IF ~r.ok
      THEN /\ Deliver(Outcome(Corrupted(closing_ident(opener)), r.jt, loc))
           /\ UNCHANGED input
           /\ HandlerFrame
    ELSE IF r.done
      THEN /\ Deliver(Outcome(Completed, r.jt, loc))
           /\ UNCHANGED input
           /\ HandlerFrame
    ELSE Enter(name, r.jt, NoLoc)

handle_right_square_bracket ==
    \/ /\ pc = "hunt" /\ ch = CHAR_RIGHT_SQUARE_BRACKET
       /\ Close("right_square_bracket", CHAR_LEFT_SQUARE_BRACKET)
    \/ ReadByte("right_square_bracket")

handle_right_curly_bracket ==
    \/ /\ pc = "hunt" /\ ch = CHAR_RIGHT_CURLY_BRACKET
       /\ Close("right_curly_bracket", CHAR_LEFT_CURLY_BRACKET)
    \/ ReadByte("right_curly_bracket")

\* handle_colon leaving in_key as it was.
handle_colon_keeps_in_key ==
    \/ /\ pc = "hunt" /\ ch = CHAR_COLON
       /\ Enter("colon", advance(jt, CHAR_COLON), NoLoc)
    \/ ReadByte("colon")

handle_colon ==
    \/ /\ pc = "hunt" /\ ch = CHAR_COLON
       /\ Enter("colon", advance([jt EXCEPT !.in_key = FALSE], CHAR_COLON), NoLoc)
    \/ ReadByte("colon")

handle_comma ==
    \/ /\ pc = "hunt" /\ ch = CHAR_COMMA
       /\ IF last_ident(jt) \in {Some(CHAR_LEFT_SQUARE_BRACKET),
                                 Some(CHAR_LEFT_CURLY_BRACKET)}
            THEN Enter("comma", advance(jt, CHAR_COMMA), NoLoc)
            ELSE Panic      \* the two unreachable!() arms
    \/ ReadByte("comma")

handle_string ==
    \/ /\ pc = "hunt" /\ ch = CHAR_QUOT_MARK
       /\ Enter("string", advance(jt, CHAR_QUOT_MARK),
                [NoLoc EXCEPT !.in_string = TRUE])
    \/ ReadByte("string")

handle_number ==
    \/ /\ pc = "hunt" /\ ch \in Digits \cup {CHAR_MINUS}
       /\ Enter("number", advance(jt, ch), NoLoc)
    \/ ReadByte("number")

handle_literal ==
    \/ /\ pc = "hunt"
       /\ ch \in {CHAR_START_FALSE, CHAR_START_NULL, CHAR_START_TRUE}
       /\ Enter("literal", advance(jt, ch),
                [NoLoc EXCEPT !.literal = literal_tail(ch)])
    \/ ReadByte("literal")

\* The bytes hunt has a handler for; on any other it returns Err(()).
Dispatchable ==
    ValueStarts \cup Closers \cup {CHAR_COLON}

hunt ==
    \/ handle_left_square_bracket
    \/ handle_left_curly_bracket
    \/ handle_right_square_bracket
    \/ handle_right_curly_bracket
    \/ handle_colon
    \/ handle_comma
    \/ handle_string
    \/ handle_number
    \/ handle_literal

(* --------------------------------- parse ------------------------------- *)
\* The bytes _print_incomplete writes: the buffer up to and including
\* partial_close_end, the closers of the open containers from the top of the
\* nest stack down, and a newline.
\* _print_incomplete with the closers written from the bottom of the stack.
print_incomplete_bottom_up(t) ==
    SubSeq(t.processed, 1, t.partial_close_end + 1)
      \o [k \in 1..t.cur_ident_level |-> closing_ident(t.ident_levels[k])]
      \o << CHAR_NEWLINE >>

print_incomplete(t) ==
    SubSeq(t.processed, 1, t.partial_close_end + 1)
      \o [k \in 1..t.cur_ident_level |->
            closing_ident(t.ident_levels[t.cur_ident_level - k + 1])]
      \o << CHAR_NEWLINE >>

\* Report::print's line, as its fields.
Report(status, s, e, p) ==
    [status |-> status, start |-> s, end |-> e, partial_end |-> p]

\* How the candidate parse is matching began, read off lastb (which hunt
\* leaves alone) and the candidates before it.
Began ==
    IF lastb = None
      THEN IF cands = << >> THEN "first_scout" ELSE "scout_after_completed"
    ELSE IF lastb[1] \in Openers THEN "lastb"
    ELSE "scout_after_corrupted"

\* The observation of the candidate being matched.
Cand(status, e, p, emitted, reported, repaired) ==
    [ status |-> status, b |-> res.b, began |-> Began,
      start |-> start, end |-> e, partial_end |-> p,
      cur |-> jt.cur, partial_close_end |-> jt.partial_close_end,
      nest |-> SubSeq(jt.ident_levels, 1, jt.cur_ident_level),
      buf |-> SubSeq(jt.processed, 1, jt.cur),
      consumed |-> Len(input),
      emitted |-> emitted, reported |-> reported, repaired |-> repaired ]

Write(sink, kind, data) ==
    [sink |-> sink, kind |-> kind, cand |-> Len(cands) + 1, data |-> data]

\* The head of parse's loop without the byte lastb stands for.
Candidate_forgets_lastb(read, c) ==
    IF start + read < 1
      THEN /\ pc' = "panicked"
           /\ UNCHANGED << start, ch >>
      ELSE /\ start' = start + read - 1
           /\ ch' = c
           /\ pc' = "hunt"

\* The head of parse's loop up to the call of hunt: read and c are what the
\* match on lastb yields.
Candidate(read, c) ==
    IF start + read < 1
      THEN /\ pc' = "panicked"       \* start + read - 1 on a usize
           /\ UNCHANGED << start, ch >>
      ELSE /\ start' = start + read - 1 + (IF lastb # None THEN 1 ELSE 0)
           /\ ch' = c
           /\ pc' = "hunt"

ParseFrame ==
    UNCHANGED << reader, min_size, fix_incomplete, json_writer, report_writer, jt,
                 lastb, res, loc, cands, writes >>

\* scout() stopping in front of the opener it finds.
parse_scout_leaves_opener ==
    /\ pc = "parse_loop"
    /\ ~(lastb # None /\ lastb[1] \in Openers)
    /\ \E n \in 0..(reader.len - Len(input)) :
         \E skipped \in [1..n -> reader.alphabet \ Openers] :
            /\ \A i \in 1..n : skipped[i] \in Stream(Len(input) + i - 1)
            /\ \/ \E o \in Stream(Len(input) + n) \cap Openers :
                     /\ input' = input \o skipped
                     /\ Candidate(n + 1, o)
               \/ /\ AtEnd(Len(input) + n)
                  /\ input' = input \o skipped
                  /\ pc' = "done"
                  /\ UNCHANGED << start, ch >>
    /\ ParseFrame

\* scout(): skips the bytes before the next opener and consumes the opener,
\* or drains the source.
parse_scout ==
    /\ pc = "parse_loop"
    /\ ~(lastb # None /\ lastb[1] \in Openers)
    /\ \E n \in 0..(reader.len - Len(input)) :
         \E skipped \in [1..n -> reader.alphabet \ Openers] :
            /\ \A i \in 1..n : skipped[i] \in Stream(Len(input) + i - 1)
            /\ \/ \E o \in Stream(Len(input) + n) \cap Openers :
                     /\ input' = input \o skipped \o << o >>
                     /\ Candidate(n + 1, o)
               \/ /\ AtEnd(Len(input) + n)
                  /\ input' = input \o skipped
                  /\ pc' = "done"
                  /\ UNCHANGED << start, ch >>
    /\ ParseFrame

parse_lastb ==
    /\ pc = "parse_loop"
    /\ lastb # None /\ lastb[1] \in Openers
    /\ Candidate(0, lastb[1])
    /\ UNCHANGED input
    /\ ParseFrame

\* `if self.jt.cur >= self.min_size` of the Completed arm.
\* The Completed arm's test made strict.
completed_is_emitted_strict(t, m) == t.cur > m

completed_is_emitted(t, m) == t.cur >= m

MatchFrame == UNCHANGED << reader, input, min_size, fix_incomplete, ch, res, loc >>

\* The value written without the newline after it.
emission_unterminated(t) == SubSeq(t.processed, 1, t.cur)

\* The Completed arm's two write_all calls: the buffer, then a newline.
emission(t) == SubSeq(t.processed, 1, t.cur) \o << CHAR_NEWLINE >>

parse_Completed ==
    /\ pc = "parse_match" /\ res.tag = "Completed"
    /\ LET end == start + jt.cur - 1
           out == emission(jt)
           emit == completed_is_emitted(jt, min_size)
       IN  /\ json_writer' = IF emit THEN json_writer \o out ELSE json_writer
           /\ writes' = IF emit THEN Append(writes, Write("json", "emit", out))
                        ELSE writes
           /\ cands' = Append(cands,
                 Cand("completed", end, start + jt.partial_close_end,
                      IF emit THEN Some(out) ELSE None, None, None))
           /\ start' = end + 1
    /\ lastb' = None
    /\ jt' = quick_clean(jt)
    /\ pc' = "parse_loop"
    /\ UNCHANGED report_writer
    /\ MatchFrame

\* `if self.jt.partial_close_end >= self.min_size` of both arms.
\* The Corrupted and Exhausted arms' test made on cur.
incomplete_is_reported_on_cur(t, m) == t.cur >= m

incomplete_is_reported(t, m) == t.partial_close_end >= m

\* The repair written whenever the report is.
incomplete_is_fixed_always(t, m, fix) == incomplete_is_reported(t, m)

\* `if self.fix_incomplete`, inside the branch that wrote the report.
incomplete_is_fixed(t, m, fix) == incomplete_is_reported(t, m) /\ fix

\* The two arms' writes with the repair made first.
incomplete_writes_repair_first(report, fixed, reported, repaired) ==
    (IF repaired THEN << Write("json", "repair", fixed) >> ELSE << >>)
      \o (IF reported THEN << Write("report", "report", report) >> ELSE << >>)

\* The write_all calls of the two arms, in the order they are made:
\* report.print(..), then _print_incomplete().
incomplete_writes(report, fixed, reported, repaired) ==
    (IF reported THEN << Write("report", "report", report) >> ELSE << >>)
      \o (IF repaired THEN << Write("json", "repair", fixed) >> ELSE << >>)

\* The body the Corrupted and the Exhausted arm share: the report record and
\* the optional repair.
Incomplete(status) ==
    LET corrupted_end == start + jt.cur - 1
        partial_end == start + jt.partial_close_end
        report == Report(status, start, corrupted_end, partial_end)
        reported == incomplete_is_reported(jt, min_size)
        repaired == incomplete_is_fixed(jt, min_size, fix_incomplete)
        fixed == print_incomplete(jt)
    IN  /\ report_writer' = IF reported THEN Append(report_writer, report)
                            ELSE report_writer
        /\ json_writer' = IF repaired THEN json_writer \o fixed ELSE json_writer
        /\ writes' = writes \o incomplete_writes(report, fixed, reported, repaired)
        /\ cands' = Append(cands,
              Cand(status, corrupted_end, partial_end, None,
                   IF reported THEN Some(report) ELSE None,
                   IF repaired THEN Some(fixed) ELSE None))

\* The Corrupted arm leaving start on the candidate's last byte.
parse_Corrupted_restarts_on_end ==
    /\ pc = "parse_match" /\ res.tag = "Corrupted"
    /\ Incomplete("corrupted")
    /\ start' = start + jt.cur - 1
    /\ lastb' = Some(res.b)
    /\ jt' = quick_clean(jt)
    /\ pc' = "parse_loop"
    /\ MatchFrame

\* The Corrupted arm with the corrupting byte forgotten.
parse_Corrupted_drops_byte ==
    /\ pc = "parse_match" /\ res.tag = "Corrupted"
    /\ Incomplete("corrupted")
    /\ start' = start + jt.cur - 1 + 1
    /\ lastb' = None
    /\ jt' = quick_clean(jt)
    /\ pc' = "parse_loop"
    /\ MatchFrame

parse_Corrupted ==
    /\ pc = "parse_match" /\ res.tag = "Corrupted"
    /\ Incomplete("corrupted")
    /\ start' = start + jt.cur - 1 + 1
    /\ lastb' = Some(res.b)
    /\ jt' = quick_clean(jt)
    /\ pc' = "parse_loop"
    /\ MatchFrame

\* The Exhausted arm falling through to the loop's next round.
parse_Exhausted_goes_on ==
    /\ pc = "parse_match" /\ res.tag = "Exhausted"
    /\ Incomplete("exhausted")
    /\ start' = start + jt.cur - 1 + 1
    /\ lastb' = None
    /\ jt' = quick_clean(jt)
    /\ pc' = "parse_loop"
    /\ MatchFrame

parse_Exhausted ==
    /\ pc = "parse_match" /\ res.tag = "Exhausted"
    /\ Incomplete("exhausted")
    /\ pc' = "done"
    /\ UNCHANGED << start, lastb, jt >>
    /\ MatchFrame

parse ==
    \/ parse_scout
    \/ parse_lastb
    \/ parse_Completed
    \/ parse_Corrupted
    \/ parse_Exhausted

Next == parse \/ hunt

Spec == Init /\ [][Next]_vars

(* ------------------------- runs over string bytes ---------------------- *)
\* The bytes of strings with brackets, escapes and a control byte in them.
EscapeBytes ==
    { CHAR_LEFT_SQUARE_BRACKET, CHAR_RIGHT_SQUARE_BRACKET, CHAR_LEFT_CURLY_BRACKET,
      CHAR_RIGHT_CURLY_BRACKET, CHAR_QUOT_MARK, CHAR_ESCAPE, CHAR_U,
      CHAR_UNIT_SEPARATOR }

\* A carver as Carver::new makes it, with min_size = 0, over reader r.
CarverOver(r) ==
    /\ reader = r
    /\ input = << >>
    /\ jt = JsonTracker_new(FALSE)
    /\ min_size = 0
    /\ fix_incomplete = FALSE
    /\ json_writer = << >>
    /\ report_writer = << >>
    /\ start = 0
    /\ lastb = None
    /\ pc = "parse_loop"
    /\ ch = 0
    /\ res = Completed
    /\ loc = NoLoc
    /\ cands = << >>
    /\ writes = << >>

StringInit == CarverOver([alphabet |-> EscapeBytes, len |-> MaxLen])

\* hunt over these bytes: the handlers it can reach.
StringNext ==
    \/ parse
    \/ handle_left_square_bracket
    \/ handle_left_curly_bracket
    \/ handle_right_square_bracket
    \/ handle_right_curly_bracket
    \/ handle_string

StringSpec == StringInit /\ [][StringNext]_vars

(* ------------------------ runs over \u escapes ------------------------- *)
\* The bytes of an array of strings with \u escapes: 'a' is a hex digit.
HexBytes ==
    { CHAR_LEFT_SQUARE_BRACKET, CHAR_RIGHT_SQUARE_BRACKET, CHAR_QUOT_MARK,
      CHAR_ESCAPE, CHAR_U, CHAR_A }

HexInit == CarverOver([alphabet |-> HexBytes, len |-> MaxLenHex])

\* hunt over these bytes: the handlers it can reach.
HexNext ==
    \/ parse
    \/ handle_left_square_bracket
    \/ handle_right_square_bracket
    \/ handle_string

HexSpec == HexInit /\ [][HexNext]_vars

(* ----------------------- runs over objects' members -------------------- *)
\* The bytes of objects with string keys, string and number values, and of
\* arrays that open.
ObjectBytes ==
    { CHAR_LEFT_CURLY_BRACKET, CHAR_RIGHT_CURLY_BRACKET, CHAR_LEFT_SQUARE_BRACKET,
      CHAR_QUOT_MARK, CHAR_COLON, CHAR_COMMA, CHAR_ONE }

ObjectInit == CarverOver([alphabet |-> ObjectBytes, len |-> MaxLenObj])

\* hunt over these bytes: the handlers it can reach.
ObjectNext ==
    \/ parse
    \/ handle_left_square_bracket
    \/ handle_left_curly_bracket
    \/ handle_right_curly_bracket
    \/ handle_colon
    \/ handle_comma
    \/ handle_string
    \/ handle_number

ObjectSpec == ObjectInit /\ [][ObjectNext]_vars

(* ------------------------- runs over number bytes ---------------------- *)
\* The bytes of arrays of numbers.
NumberBytes ==
    { CHAR_LEFT_SQUARE_BRACKET, CHAR_RIGHT_SQUARE_BRACKET, CHAR_RIGHT_CURLY_BRACKET,
      CHAR_COMMA, CHAR_SPACE, CHAR_MINUS, CHAR_ZERO, CHAR_ONE, CHAR_DECIMAL,
      CHAR_EXP_LOWER }

NumberInit == CarverOver([alphabet |-> NumberBytes, len |-> MaxLen])

\* hunt over these bytes: the handlers it can reach.
NumberNext ==
    \/ parse
    \/ handle_left_square_bracket
    \/ handle_right_square_bracket
    \/ handle_right_curly_bracket
    \/ handle_comma
    \/ handle_number

NumberSpec == NumberInit /\ [][NumberNext]_vars

(* --------------------------- runs to their end ------------------------- *)
\* Bytes that reach the handlers of arrays, objects, strings and numbers
\* within a short stream, and one byte that no handler is dispatched on.
HandlerBytes ==
    { CHAR_LEFT_SQUARE_BRACKET, CHAR_RIGHT_SQUARE_BRACKET, CHAR_LEFT_CURLY_BRACKET,
      CHAR_RIGHT_CURLY_BRACKET, CHAR_QUOT_MARK, CHAR_COLON, CHAR_COMMA, CHAR_ONE,
      CHAR_H }

FairInit == CarverOver([alphabet |-> HandlerBytes, len |-> MaxLenFair])

FairNext ==
    \/ parse
    \/ handle_left_square_bracket
    \/ handle_left_curly_bracket
    \/ handle_right_square_bracket
    \/ handle_right_curly_bracket
    \/ handle_colon
    \/ handle_comma
    \/ handle_string
    \/ handle_number

\* parse is one thread that never yields: no step of it waits for anything
\* but a read, and a read of a finite stream returns.
FairSpec == FairInit /\ [][FairNext]_vars /\ WF_vars(FairNext)

(* ------------------------ runs over a failing source ------------------- *)
\* The positions of parse inside a handler's loop over the reader's bytes.
Handling ==
    { "left_square_bracket", "left_curly_bracket", "right_square_bracket",
      "right_curly_bracket", "colon", "comma", "string", "number", "literal" }

\* A read error in a handler taken for the end of the stream: the candidate
\* is reported, and repaired if it may be, before parse stops.
handler_read_error_reports ==
    /\ pc \in Handling
    /\ Incomplete("exhausted")
    /\ pc' = "read_error"
    /\ UNCHANGED << start, lastb, jt >>
    /\ MatchFrame

\* `let b = b?;` in a handler's loop: the reader's bytes() yields an error
\* (it retries an interrupted read itself), the handler returns it, hunt
\* returns Err(()) and parse breaks out of its loop.
handler_read_error ==
    /\ pc \in Handling
    /\ pc' = "read_error"
    /\ UNCHANGED << input, jt, ch, res, loc >>
    /\ HandlerFrame

\* scout()'s fill_buf returns an error that is no interrupt, after the chunks
\* without an opener that scout consumed before it; parse breaks out of its
\* loop.  An interrupted fill_buf is called again and changes nothing.
scout_read_error ==
    /\ pc = "parse_loop"
    /\ ~(lastb # None /\ lastb[1] \in Openers)
    /\ \E n \in 0..(reader.len - Len(input)) :
         \E skipped \in [1..n -> reader.alphabet \ Openers] :
            /\ \A i \in 1..n : skipped[i] \in Stream(Len(input) + i - 1)
            /\ input' = input \o skipped
    /\ pc' = "read_error"
    /\ UNCHANGED << start, ch >>
    /\ ParseFrame

IoNext == Next \/ scout_read_error \/ handler_read_error

IoSpec == Init /\ [][IoNext]_vars

(* ------------------------------ a second run --------------------------- *)
Range(s) == { s[i] : i \in 1..Len(s) }

\* A run made without repairs is over, and what it wrote to the JSON sink is
\* the input of a new carver with min_size = 0 and empty sinks.
Refeed ==
    /\ pc = "done"
    /\ ~Replaying
    /\ ~fix_incomplete
    /\ reader' = [alphabet |-> Range(json_writer), len |-> Len(json_writer),
                  replay |-> json_writer]
    /\ input' = << >>
    /\ jt' = JsonTracker_new(jt.replace_newlines)
    /\ min_size' = 0
    /\ json_writer' = << >>
    /\ report_writer' = << >>
    /\ start' = 0
    /\ lastb' = None
    /\ pc' = "parse_loop"
    /\ ch' = 0
    /\ res' = Completed
    /\ loc' = NoLoc
    /\ cands' = << >>
    /\ writes' = << >>
    /\ UNCHANGED fix_incomplete

RoundTripNext == Next \/ Refeed

RoundTrip == Init /\ [][RoundTripNext]_vars

(* ----------------------- RFC 8259, for the claims ---------------------- *)
\* A recogniser of the RFC 8259 grammar over byte sequences, written from the
\* RFC's rules and not from the carver.  An operator that parses from index i
\* yields the index after what it accepts, or 0.
At(s, i) == IF i >= 1 /\ i <= Len(s) THEN s[i] ELSE 0 - 1

RECURSIVE Rfc_ws(_, _)
Rfc_ws(s, i) == IF At(s, i) \in {32, 9, 10, 13} THEN Rfc_ws(s, i + 1) ELSE i

RECURSIVE Rfc_digits(_, _)
Rfc_digits(s, i) == IF At(s, i) \in 48..57 THEN Rfc_digits(s, i + 1) ELSE i

\* number = [ minus ] int [ frac ] [ exp ]
Rfc_number(s, i) ==
    LET i1 == IF At(s, i) = 45 THEN i + 1 ELSE i
        i2 == IF At(s, i1) = 48 THEN i1 + 1
              ELSE IF At(s, i1) \in 49..57 THEN Rfc_digits(s, i1 + 1)
              ELSE 0
        i3 == IF i2 = 0 THEN 0
              ELSE IF At(s, i2) = 46
                THEN IF At(s, i2 + 1) \in 48..57 THEN Rfc_digits(s, i2 + 2) ELSE 0
              ELSE i2
        j  == IF At(s, i3 + 1) \in {43, 45} THEN i3 + 2 ELSE i3 + 1
    IN  IF i3 = 0 THEN 0
        ELSE IF At(s, i3) \in {101, 69}
          THEN IF At(s, j) \in 48..57 THEN Rfc_digits(s, j + 1) ELSE 0
        ELSE i3

\* The chars of a string after its opening quotation mark, and the closing one.
RECURSIVE Rfc_chars(_, _)
Rfc_chars(s, i) ==
    LET c == At(s, i) IN
    IF c = 34 THEN i + 1
    ELSE IF c = 92
      THEN IF At(s, i + 1) \in {34, 92, 47, 98, 102, 110, 114, 116}
             THEN Rfc_chars(s, i + 2)
           ELSE IF /\ At(s, i + 1) = 117
                   /\ \A k \in 2..5 :
                        At(s, i + k) \in (48..57) \cup (65..70) \cup (97..102)
             THEN Rfc_chars(s, i + 6)
           ELSE 0
    ELSE IF c < 32 THEN 0        \* control characters, and the end of s
    ELSE Rfc_chars(s, i + 1)

Rfc_literal(s, i, w) ==
    IF \A k \in 1..Len(w) : At(s, i + k - 1) = w[k] THEN i + Len(w) ELSE 0

RECURSIVE Rfc_value(_, _), Rfc_elements(_, _), Rfc_members(_, _)
Rfc_value(s, i) ==
    LET c == At(s, i) IN
    IF c = 91
      THEN LET j == Rfc_ws(s, i + 1)
           IN  IF At(s, j) = 93 THEN j + 1 ELSE Rfc_elements(s, j)
    ELSE IF c = 123
      THEN LET j == Rfc_ws(s, i + 1)
           IN  IF At(s, j) = 125 THEN j + 1 ELSE Rfc_members(s, j)
    ELSE IF c = 34 THEN Rfc_chars(s, i + 1)
    ELSE IF c = 45 \/ c \in 48..57 THEN Rfc_number(s, i)
    ELSE IF c = 116 THEN Rfc_literal(s, i, << 116, 114, 117, 101 >>)
    ELSE IF c = 102 THEN Rfc_literal(s, i, << 102, 97, 108, 115, 101 >>)
    ELSE IF c = 110 THEN Rfc_literal(s, i, << 110, 117, 108, 108 >>)
    ELSE 0

\* value *( value-separator value ) end-array, from the first value
Rfc_elements(s, i) ==
    LET k == Rfc_value(s, i)
        m == Rfc_ws(s, k)
    IN  IF k = 0 THEN 0
        ELSE IF At(s, m) = 44 THEN Rfc_elements(s, Rfc_ws(s, m + 1))
        ELSE IF At(s, m) = 93 THEN m + 1
        ELSE 0

\* member *( value-separator member ) end-object, from the first member
Rfc_members(s, i) ==
    LET k == IF At(s, i) = 34 THEN Rfc_chars(s, i + 1) ELSE 0
        m == Rfc_ws(s, k)
        v == IF k # 0 /\ At(s, m) = 58 THEN Rfc_value(s, Rfc_ws(s, m + 1)) ELSE 0
        n == Rfc_ws(s, v)
    IN  IF v = 0 THEN 0
        ELSE IF At(s, n) = 44 THEN Rfc_members(s, Rfc_ws(s, n + 1))
        ELSE IF At(s, n) = 125 THEN n + 1
        ELSE 0

\* s is a JSON text (ws value ws) whose value is an array or an object.
IsJsonContainer(s) ==
    LET i == Rfc_ws(s, 1)
        k == Rfc_value(s, i)
    IN  /\ At(s, i) \in {91, 123}
        /\ k # 0
        /\ Rfc_ws(s, k) = Len(s) + 1

(* ------------------------------ the claims ----------------------------- *)
\* s without its last byte.
Front(s) == SubSeq(s, 1, Len(s) - 1)

\* The input bytes at the 0-based offsets a..b, as the buffer stores them:
\* 0x0A as 0x20 when replace_newlines is set.
Stored(a, b) ==
    [i \in 1..(b - a + 1) |->
        IF jt.replace_newlines /\ input[a + i] = 10 THEN 32 ELSE input[a + i]]

Completions == { k \in 1..Len(cands) : cands[k].status = "completed" }
Incompletes == { k \in 1..Len(cands) : cands[k].status # "completed" }

\* The write_all calls made for candidate k.
WritesOf(k) == { i \in 1..Len(writes) : writes[i].cand = k }

\* C1: every value parse writes to the JSON sink for a candidate that ended
\* Completed is a valid RFC 8259 array or object.
C1_EmissionsAreValidJson ==
    \A i \in 1..Len(writes) :
        writes[i].kind = "emit" => IsJsonContainer(Front(writes[i].data))

\* C2: at every point the candidate buffer [0..cur) is the input from start
\* on, newline for space when replace_newlines is set, it is never longer
\* than what was consumed, and each emission is the input slice
\* input[start..=end] so stored followed by one 0x0A.
C2_BufferIsInputSlice ==
    /\ start + jt.cur <= Len(input)
    /\ SubSeq(jt.processed, 1, jt.cur) = Stored(start, start + jt.cur - 1)
    /\ \A i \in 1..Len(writes) :
          writes[i].kind = "emit" =>
             LET c == cands[writes[i].cand]
             IN  writes[i].data = Stored(c.start, c.end) \o << 10 >>

\* A value was emitted that began after skipped bytes, holds a newline stored
\* as a space, and was followed by more input.
C2_Witness ==
    \E i \in 1..Len(writes) :
        /\ writes[i].kind = "emit"
        /\ cands[writes[i].cand].start > 0
        /\ jt.replace_newlines
        /\ \E j \in 1..Len(writes[i].data) :
              /\ writes[i].data[j] = 32
              /\ input[cands[writes[i].cand].start + j] = 10
        /\ Len(input) > cands[writes[i].cand].end + 1

\* C3: with fix_incomplete unset every write to the JSON sink is the emission
\* of a candidate that ended Completed, the sink holds exactly these
\* emissions, and it is empty when no candidate completed.
RECURSIVE JsonWritten(_)
JsonWritten(n) ==
    IF n = 0 THEN << >>
    ELSE JsonWritten(n - 1)
           \o (IF writes[n].sink = "json" THEN writes[n].data ELSE << >>)

C3_NoRepairWithoutFix ==
    ~fix_incomplete =>
        /\ \A i \in 1..Len(writes) :
              writes[i].sink = "json" =>
                 /\ writes[i].kind = "emit"
                 /\ cands[writes[i].cand].status = "completed"
        /\ json_writer = JsonWritten(Len(writes))
        /\ (Completions = {} => json_writer = << >>)

\* The run is over, fix_incomplete is unset, a corrupted and an exhausted
\* candidate were both reported, and a completed one was emitted.
C3_Witness ==
    /\ ~fix_incomplete
    /\ pc = "done"
    /\ \E k \in Incompletes : cands[k].status = "corrupted" /\ cands[k].reported # None
    /\ \E k \in Incompletes : cands[k].status = "exhausted" /\ cands[k].reported # None
    /\ json_writer # << >>

\* The closers of the openers of nest, from its top down: each opener + 2.
ClosersOf(nest) == [k \in 1..Len(nest) |-> nest[Len(nest) - k + 1] + 2]

\* C4 as stated: every repair is the input bytes input[start ..=
\* start+partial_close_end] verbatim, the closers of the nest stack from
\* its top down, and one 0x0A.
C4_RepairIsVerbatimInput ==
    \A i \in 1..Len(writes) :
        writes[i].kind = "repair" =>
           LET c == cands[writes[i].cand]
           IN  writes[i].data =
                 SubSeq(input, c.start + 1, c.start + c.partial_close_end + 1)
                   \o ClosersOf(c.nest) \o << 10 >>

\* C4, amended: every repair is the input bytes input[start ..=
\* start+partial_close_end] with 0x0A stored as 0x20 when replace_newlines is
\* set, the closers of the nest stack from its top down, and one 0x0A.
C4_RepairIsStoredInput ==
    \A i \in 1..Len(writes) :
        writes[i].kind = "repair" =>
           LET c == cands[writes[i].cand]
           IN  writes[i].data =
                 Stored(c.start, c.start + c.partial_close_end)
                   \o ClosersOf(c.nest) \o << 10 >>

\* A repair was written for a candidate that is not the first, whose
\* predecessor left more bytes in the buffer than the repair's prefix has,
\* and whose nest stack held both kinds of opener.
C4_Witness ==
    \E i \in 1..Len(writes) :
        /\ writes[i].kind = "repair"
        /\ writes[i].cand > 1
        /\ LET c == cands[writes[i].cand]
               p == cands[writes[i].cand - 1]
           IN  /\ p.cur > c.cur
               /\ Len(c.nest) >= 2
               /\ c.nest[1] # c.nest[2]

\* C5: for every candidate that ended Corrupted or Exhausted, the buffer up
\* to and including partial_close_end followed by the closers of the open
\* containers, top first, is a valid RFC 8259 array or object.
C5_RepairIsValidJson ==
    \A k \in Incompletes :
        IsJsonContainer(SubSeq(cands[k].buf, 1, cands[k].partial_close_end + 1)
                          \o ClosersOf(cands[k].nest))

\* C6: every record of the report sink has start <= partial_end <= end.
C6_ReportOffsetsOrdered ==
    \A i \in 1..Len(report_writer) :
        /\ report_writer[i].start <= report_writer[i].partial_end
        /\ report_writer[i].partial_end <= report_writer[i].end

\* A record was written with 0 < start < partial_end < end.
C6_Witness ==
    \E i \in 1..Len(report_writer) :
        /\ 0 < report_writer[i].start
        /\ report_writer[i].start < report_writer[i].partial_end
        /\ report_writer[i].partial_end < report_writer[i].end

Brackets ==
    { CHAR_LEFT_SQUARE_BRACKET, CHAR_LEFT_CURLY_BRACKET,
      CHAR_RIGHT_SQUARE_BRACKET, CHAR_RIGHT_CURLY_BRACKET }

\* C7: while a candidate is hunted and when it is matched, start is the
\* offset of the opener that began it; its buffer is the input from start to
\* end, so end is the offset of the last byte appended, the only byte
\* consumed after it being the corrupting one; and partial_end is the offset
\* of an opener or closer of the input.  The report records carry the same
\* offsets.
C7_OffsetsAreInputOffsets ==
    /\ pc \notin {"parse_loop", "done"} =>
          /\ start < Len(input)
          /\ input[start + 1] \in Openers
    /\ \A k \in 1..Len(cands) :
          LET c == cands[k] IN
          /\ c.end < Len(input)
          /\ input[c.start + 1] \in Openers
          /\ c.buf = Stored(c.start, c.end)
          /\ c.consumed = c.end + 1 + (IF c.status = "corrupted" THEN 1 ELSE 0)
          /\ c.status = "corrupted" => input[c.end + 2] = c.b
          /\ c.partial_end \in c.start..c.end
          /\ input[c.partial_end + 1] \in Brackets
    /\ \A i \in 1..Len(writes) :
          writes[i].kind = "report" =>
             LET c == cands[writes[i].cand]
                 r == writes[i].data
             IN  r.start = c.start /\ r.end = c.end /\ r.partial_end = c.partial_end

\* One run held a candidate begun by the first scout past skipped bytes, one
\* begun by a scout after a corrupting byte that was no opener, and one begun
\* on a corrupting opener.
C7_Witness ==
    /\ \E k \in 1..Len(cands) : cands[k].began = "first_scout" /\ cands[k].start > 0
    /\ \E k \in 2..Len(cands) : cands[k].began = "scout_after_corrupted"
    /\ \E k \in 2..Len(cands) : cands[k].began = "lastb"

\* A candidate found by a scout after a Completed one, past skipped bytes.
C7_WitnessAfterCompleted ==
    \E k \in 2..Len(cands) :
        /\ cands[k].began = "scout_after_completed"
        /\ cands[k].start > cands[k - 1].end + 1

RECURSIVE ReportWritten(_)
ReportWritten(n) ==
    IF n = 0 THEN << >>
    ELSE ReportWritten(n - 1)
           \o (IF writes[n].sink = "report" THEN << writes[n].data >> ELSE << >>)

\* Both sinks hold what the write_all calls put there, in their order.
SinksAreTheWrites ==
    /\ json_writer = JsonWritten(Len(writes))
    /\ report_writer = ReportWritten(Len(writes))

\* C8: a candidate that ended Completed is written to the JSON sink if and
\* only if cur >= min_size, and nothing is written to the report sink for it.
C8_CompletedEmittedIffLongEnough ==
    /\ SinksAreTheWrites
    /\ \A k \in Completions :
          /\ (\E i \in WritesOf(k) : writes[i].sink = "json")
                <=> cands[k].cur >= min_size
          /\ \A i \in WritesOf(k) : writes[i].sink = "json" /\ writes[i].kind = "emit"

\* One run completed a candidate shorter than min_size and one at least
\* min_size long.
C8_Witness ==
    /\ \E k \in Completions : cands[k].cur < min_size
    /\ \E k \in Completions : cands[k].cur >= min_size
    /\ json_writer # << >>

\* C9: a candidate that ended Corrupted or Exhausted has a report record
\* written if and only if partial_close_end >= min_size, and a repair if and
\* only if the record was written and fix_incomplete is set.
C9_ReportIffBookmarkLongEnough ==
    /\ SinksAreTheWrites
    /\ \A k \in Incompletes :
          LET reported == \E i \in WritesOf(k) : writes[i].kind = "report"
              repaired == \E i \in WritesOf(k) : writes[i].kind = "repair"
          IN  /\ reported <=> cands[k].partial_close_end >= min_size
              /\ repaired <=> (reported /\ fix_incomplete)
              /\ \A i \in WritesOf(k) : writes[i].kind \in {"report", "repair"}

\* One run, with fix_incomplete set, swallowed a candidate whose bookmark was
\* below min_size, and reported and repaired another.
C9_Witness ==
    /\ fix_incomplete
    /\ \E k \in Incompletes :
          /\ cands[k].partial_close_end < min_size
          /\ WritesOf(k) = {}
    /\ \E k \in Incompletes :
          /\ \E i \in WritesOf(k) : writes[i].kind = "report"
          /\ \E i \in WritesOf(k) : writes[i].kind = "repair"

\* C10: the candidates' [start, end] ranges are disjoint and increasing; the
\* writes are made in candidate order; a candidate's writes are one emission,
\* or one report followed by at most one repair; and each sink holds them in
\* that order.
C10_OutputsInInputOrder ==
    /\ SinksAreTheWrites
    /\ \A k \in 1..Len(cands) :
          /\ cands[k].start <= cands[k].end
          /\ k > 1 => cands[k - 1].end < cands[k].start
    /\ \A i \in 1..Len(writes) :
          /\ writes[i].sink = "report" =>
                writes[i].data.start = cands[writes[i].cand].start
          /\ i > 1 =>
               \/ cands[writes[i - 1].cand].end < cands[writes[i].cand].start
               \/ /\ writes[i - 1].cand = writes[i].cand
                  /\ writes[i - 1].kind = "report"
                  /\ writes[i].kind = "repair"

\* One run wrote a report and its repair, then an emission, then another
\* report and its repair.
C10_Witness ==
    \E i \in 1..Len(writes) :
        /\ i + 4 <= Len(writes)
        /\ writes[i].kind = "report" /\ writes[i + 1].kind = "repair"
        /\ writes[i + 2].kind = "emit"
        /\ writes[i + 3].kind = "report" /\ writes[i + 4].kind = "repair"

\* C11: when a candidate ended Corrupted(b) and b is an opener, the next
\* candidate begins at b itself: its start is the previous end + 1, the byte
\* there is b, and it was among the bytes the previous candidate consumed (no
\* scout, nothing skipped).  When b is any other byte, the next candidate
\* begins at the first opener strictly after b.  The candidate being hunted
\* counts as the next one.
NextStarts ==
    [k \in 1..Len(cands) |-> cands[k].start]
      \o (IF pc \notin {"parse_loop", "done", "panicked"} THEN << start >> ELSE << >>)

C11_NextCandidateAfterCorrupted ==
    \A k \in 1..Len(cands) :
        (cands[k].status = "corrupted" /\ k < Len(NextStarts)) =>
           LET at == cands[k].end + 1        \* the offset of b
               s == NextStarts[k + 1]
           IN  /\ input[at + 1] = cands[k].b
               /\ IF cands[k].b \in Openers
                    THEN /\ s = at
                         /\ s + 1 = cands[k].consumed
                    ELSE /\ s > at
                         /\ input[s + 1] \in Openers
                         /\ \A o \in (at + 1)..(s - 1) : input[o + 1] \notin Openers

\* One run held a candidate corrupted by an opener, with the next candidate
\* begun on it, and one corrupted by another byte, with the next candidate
\* begun past a skipped byte.
C11_Witness ==
    /\ \E k \in 1..Len(cands) :
          /\ cands[k].status = "corrupted" /\ cands[k].b \in Openers
          /\ k < Len(cands)
    /\ \E k \in 1..Len(cands) :
          /\ cands[k].status = "corrupted" /\ cands[k].b \notin Openers
          /\ k < Len(cands)
          /\ cands[k + 1].start > cands[k].end + 2

\* C12: a candidate that ended Exhausted is the last one and the run is
\* over; the report sink holds at most one exhausted record and it is its
\* last; and no write follows the exhausted candidate's report and repair.
C12_ExhaustedEndsTheRun ==
    /\ \A k \in 1..Len(cands) :
          cands[k].status = "exhausted" => (k = Len(cands) /\ pc = "done")
    /\ \A i \in 1..Len(report_writer) :
          report_writer[i].status = "exhausted" => i = Len(report_writer)
    /\ \A i \in 1..Len(writes) :
          cands[writes[i].cand].status = "exhausted" =>
             /\ \A j \in (i + 1)..Len(writes) : writes[j].cand = writes[i].cand
             /\ writes[i].kind = "report" => i >= Len(writes) - 1
             /\ writes[i].kind = "repair" => i = Len(writes)

\* A run ended on an exhausted candidate that was reported and repaired,
\* after records and values written for earlier candidates.
C12_Witness ==
    /\ pc = "done"
    /\ Len(report_writer) >= 2
    /\ report_writer[Len(report_writer)].status = "exhausted"
    /\ Len(writes) >= 4
    /\ writes[Len(writes)].kind = "repair"
    /\ \E i \in 1..Len(writes) : writes[i].kind = "emit"

\* The bytes consumed when the last candidate was matched: none before the
\* first.
LastConsumed == IF cands = << >> THEN 0 ELSE cands[Len(cands)].consumed

\* C13: when the final candidate ended Exhausted, the buffer holds every
\* input byte from its opener to the end of the stream, so end + 1 is the
\* input length and the bytes consumed; when the run ended on a scout that
\* met the end of the stream, every byte was consumed: those after the last
\* candidate were skipped by the scout, none of them an opener.
C13_ConsumedIsInputLength ==
    pc = "done" =>
       IF cands # << >> /\ cands[Len(cands)].status = "exhausted"
         THEN LET c == cands[Len(cands)]
              IN  /\ c.end + 1 = Len(input)
                  /\ c.consumed = c.end + 1
                  /\ c.cur = Len(input) - c.start
                  /\ c.buf = Stored(c.start, Len(input) - 1)
         ELSE /\ start <= Len(input)
              /\ \A i \in (LastConsumed + 1)..Len(input) : input[i] \notin Openers
              /\ lastb # None => input[LastConsumed] = lastb[1]

\* A run ended on an exhausted candidate that was not the first, held
\* whitespace and a nested container, and reached the longest stream.
C13_Witness ==
    /\ pc = "done"
    /\ Len(cands) >= 2
    /\ LET c == cands[Len(cands)]
       IN  /\ c.status = "exhausted"
           /\ c.cur >= 3
           /\ c.partial_close_end >= 1
           /\ c.partial_close_end < c.cur - 1
    /\ Len(input) = reader.len

\* C14: when the JSON sink output of a run made without repairs is fed to a
\* carver with min_size = 0, that carver writes no report and, once it is
\* done, its JSON sink holds exactly the bytes it was fed: the same values in
\* the same order.  While it runs its sink is a prefix of them.
C14_RoundTrip ==
    Replaying =>
       /\ report_writer = << >>
       /\ pc # "panicked"
       /\ Len(json_writer) <= Len(reader.replay)
       /\ json_writer = SubSeq(reader.replay, 1, Len(json_writer))
       /\ \A k \in 1..Len(cands) : cands[k].status = "completed"
       /\ pc = "done" => json_writer = reader.replay

\* The second run is done and matched two values, one of them with a
\* container or a string inside.
C14_Witness ==
    /\ Replaying
    /\ pc = "done"
    /\ Len(cands) >= 2
    /\ \E k \in 1..Len(cands) : cands[k].cur >= 4

LineFeeds(s) == Cardinality({ i \in 1..Len(s) : s[i] = 10 })

\* C15: with replace_newlines set the candidate buffer never holds 0x0A, and
\* each value or repair written to the JSON sink is one line: no 0x0A but its
\* last byte, so the sink has as many 0x0A as it has writes.  With
\* replace_newlines unset the buffer holds the input bytes unchanged.
C15_OneLinePerValue ==
    /\ jt.replace_newlines =>
          /\ \A i \in 1..jt.cur : jt.processed[i] # 10
          /\ \A i \in 1..Len(writes) :
                writes[i].sink = "json" =>
                   /\ LineFeeds(writes[i].data) = 1
                   /\ writes[i].data[Len(writes[i].data)] = 10
          /\ LineFeeds(json_writer)
                = Cardinality({ i \in 1..Len(writes) : writes[i].sink = "json" })
    /\ ~jt.replace_newlines =>
          /\ pc \notin {"parse_loop", "done"} =>
                SubSeq(jt.processed, 1, jt.cur) = SubSeq(input, start + 1, start + jt.cur)
          /\ \A k \in 1..Len(cands) :
                cands[k].buf = SubSeq(input, cands[k].start + 1, cands[k].end + 1)

\* With replace_newlines set, a repair was written for a candidate whose
\* repaired part held a 0x0A of the input, after a value was emitted.
C15_Witness ==
    /\ jt.replace_newlines
    /\ \E i, j \in 1..Len(writes) :
          /\ i < j
          /\ writes[i].kind = "emit" /\ writes[j].kind = "repair"
          /\ LET c == cands[writes[j].cand]
             IN  \E o \in c.start..c.partial_end : input[o + 1] = 10

\* The byte a step of a handler's loop has read.
ByteRead == input'[Len(input')]

\* A step of handle_string's loop that reads a byte inside a string.
ReadsInString ==
    /\ pc = "string"
    /\ loc.in_string
    /\ Len(input') = Len(input) + 1

\* C16 as stated: inside a string each of '[', '{', ']' and '}' is appended,
\* the handler goes on, and the nest stack and partial_close_end stay.
C16_BracketsAppendedInString ==
    [][(ReadsInString /\ ByteRead \in Brackets) =>
          /\ jt' = advance(jt, ByteRead)
          /\ pc' = "string"]_vars

\* C16, amended: inside a string each of '[', '{', ']' and '}' leaves the
\* nest stack and partial_close_end as they are; outside an escape it is
\* appended and the string goes on; right after a backslash or inside a \u
\* escape it is Corrupted at that byte and not appended.
C16_BracketsAreOrdinaryInString ==
    [][(ReadsInString /\ ByteRead \in Brackets) =>
          /\ jt'.ident_levels = jt.ident_levels
          /\ jt'.cur_ident_level = jt.cur_ident_level
          /\ jt'.partial_close_end = jt.partial_close_end
          /\ IF ~loc.in_escape /\ loc.in_escaped_unicode = 0
               THEN /\ jt' = advance(jt, ByteRead)
                    /\ pc' = "string"
                    /\ loc' = loc
               ELSE /\ jt' = jt
                    /\ pc' = "parse_match"
                    /\ res' = Corrupted(ByteRead)]_vars

\* A string holds an opener and a closer of different containers, appended
\* with the nest stack and the bookmark as the string's container left them.
C16_Witness ==
    /\ pc = "string"
    /\ loc.in_string
    /\ jt.cur >= 4
    /\ jt.processed[jt.cur] \in {CHAR_RIGHT_SQUARE_BRACKET, CHAR_RIGHT_CURLY_BRACKET}
    /\ jt.processed[jt.cur - 1] \in {CHAR_LEFT_SQUARE_BRACKET, CHAR_LEFT_CURLY_BRACKET}
    /\ jt.processed[jt.cur] # jt.processed[jt.cur - 1] + 2
    /\ jt.processed[jt.cur - 2] = CHAR_QUOT_MARK
    /\ jt.cur_ident_level = 1
    /\ jt.partial_close_end = 0

\* C20: inside a string, in each of its sub-states (plain, after a
\* backslash, inside a \u escape), a byte below 0x20 is Corrupted at that
\* byte and is not appended.
C20_ControlBytesCorruptStrings ==
    [][(ReadsInString /\ ByteRead < 32) =>
          /\ jt' = jt
          /\ pc' = "parse_match"
          /\ res' = Corrupted(ByteRead)]_vars

NumberChars ==
    Digits \cup {CHAR_MINUS, CHAR_PLUS, CHAR_DECIMAL, CHAR_EXP_LOWER, CHAR_EXP_UPPER}

\* The bytes of the number at the end of tracker t's buffer.
NumText(t) ==
    LET n == Cardinality({ m \in 1..t.cur :
                             \A i \in (t.cur - m + 1)..t.cur :
                                t.processed[i] \in NumberChars })
    IN  SubSeq(t.processed, t.cur - n + 1, t.cur)

\* The number read so far is its first digit, a zero, after an optional '-'.
ZeroFirst(t) == NumText(t) \in { << CHAR_ZERO >>, << CHAR_MINUS, CHAR_ZERO >> }

\* C17: in handle_number, whatever byte b comes next: when the number so far
\* is `0` or `-0` and b is a digit, the outcome is Corrupted(b) and b is not
\* appended; when it is `0` or `-0` and b is '.', 'e', 'E', a space, a tab, a
\* newline, ',', ']' or '}', the outcome is not Corrupted, and for every b
\* that is no digit it is the outcome the handler has when the leading-zero
\* check has nothing to say; and a digit, zero included, after a later digit
\* or after '-', '+', '.', 'e' or 'E' is appended.
C17_LeadingZero ==
    pc = "number" =>
       \A b \in 0..255 :
          LET r == number_byte(jt, loc, b)
              r0 == number_byte(jt, [loc EXCEPT !.in_leading_zero = Some(FALSE)], b)
          IN  /\ (ZeroFirst(jt) /\ b \in Digits) =>
                    (r.cause = Corrupted(b) /\ r.jt = jt)
              /\ (ZeroFirst(jt) /\ b \notin Digits) =>
                    (r.cause = r0.cause /\ r.jt = r0.jt)
              /\ (ZeroFirst(jt)
                    /\ b \in {CHAR_DECIMAL, CHAR_EXP_LOWER, CHAR_EXP_UPPER, CHAR_SPACE,
                              CHAR_TAB, CHAR_NEWLINE} \cup Closers) =>
                    r.cause.tag \in {"Continue", "Found"}
              /\ (~ZeroFirst(jt) /\ b \in Digits /\ last_byte(jt)[1] \in NumberChars) =>
                    (r.cause = Continue /\ r.jt = advance(jt, b))

\* A candidate `[0,0` met a second zero: the first zero was followed by a
\* comma and went through, the zero after the second one is Corrupted.
C17_Witness ==
    /\ pc = "parse_match"
    /\ res = Corrupted(CHAR_ZERO)
    /\ SubSeq(jt.processed, 1, jt.cur)
          = << CHAR_LEFT_SQUARE_BRACKET, CHAR_ZERO, CHAR_COMMA, CHAR_ZERO >>

\* A candidate `[1e0` is in the number handler: a zero after the exponent sign
\* was appended.
C17_WitnessLaterZero ==
    /\ pc = "number"
    /\ SubSeq(jt.processed, 1, jt.cur)
          = << CHAR_LEFT_SQUARE_BRACKET, CHAR_ONE, CHAR_EXP_LOWER, CHAR_ZERO >>

\* parse has returned, or the process has panicked.
Ended == pc \in {"done", "panicked"}

\* C18: parse ends on every stream; hunt is never handed a byte it has no
\* handler for, so parse returns only when a read met the end of the stream;
\* and every round of the driver loop consumes at least one byte more than
\* the round before it, or ends the run on the end of the stream.
C18_ParseTerminates ==
    /\ <>Ended
    /\ [](pc = "hunt" => ch \in Dispatchable)
    /\ [](\A k \in 1..Len(cands) :
             /\ cands[k].consumed >= 1
             /\ k > 1 => \/ cands[k].consumed > cands[k - 1].consumed
                         \/ cands[k].status = "exhausted"
             /\ cands[k].status = "exhausted" => (k = Len(cands) /\ pc = "done"))

\* parse returned after three rounds of its loop on a stream of the longest
\* length, the last round begun on a corrupting opener and ended by the end
\* of the stream.
C18_Witness ==
    /\ pc = "done"
    /\ Len(cands) = 3
    /\ cands[3].status = "exhausted"
    /\ cands[3].began = "lastb"
    /\ Len(input) = reader.len


\* C19: a read error that is no interrupt, in scout or in a handler, stops
\* parse at once: the step that meets it writes nothing to either sink and
\* records no candidate, so no write is ever made for the candidate in
\* flight, what was written before stays as it was, and parse takes no step
\* after it.
C19_ReadErrorStopsParse ==
    /\ [](pc = "read_error" => \A i \in 1..Len(writes) : writes[i].cand <= Len(cands))
    /\ [][/\ pc # "read_error"
          /\ pc' = "read_error" =>
                UNCHANGED << json_writer, report_writer, writes, cands >>]_vars

\* A handler met a read error inside the second candidate, which was long
\* enough to be reported and repaired had the stream ended there, after the
\* first candidate was written to both sinks.
C19_Witness ==
    /\ pc = "read_error"
    /\ Len(cands) = 1
    /\ json_writer # << >>
    /\ report_writer # << >>
    /\ jt.cur >= 1
    /\ incomplete_is_reported(jt, min_size)
    /\ incomplete_is_fixed(jt, min_size, fix_incomplete)

\* scout met a read error after it had consumed bytes that hold no opener.
C19_WitnessScout ==
    /\ pc = "read_error"
    /\ jt.cur = 0
    /\ writes # << >>
    /\ Len(input) > cands[Len(cands)].consumed

\* C21: in handle_number, each of the four whitespace bytes that comes right
\* after a digit is appended and the handler goes on.
C21_WhitespaceAfterDigit ==
    (pc = "number" /\ last_byte(jt)[1] \in Digits) =>
       \A b \in Whitespace :
          LET r == number_byte(jt, loc, b)
          IN  r.cause = Continue /\ r.jt = advance(jt, b)

\* C22: in handle_number, after a whitespace byte every further whitespace
\* byte is appended and the handler goes on, and ',', ']' or '}' is Found.
C22_WhitespaceRunAfterNumber ==
    (pc = "number" /\ last_byte(jt)[1] \in Whitespace) =>
       /\ \A b \in Whitespace :
             LET r == number_byte(jt, loc, b)
             IN  r.cause = Continue /\ r.jt = advance(jt, b)
       /\ \A b \in Closers :
             LET r == number_byte(jt, loc, b)
             IN  r.cause = Found(b) /\ r.jt = jt

\* The bytes RFC 8259 lets follow a backslash: " \ / b f n r t u.
Escapable == {34, 92, 47, 98, 102, 110, 114, 116, 117}

\* The ASCII hex digits: 0-9, A-F, a-f.
AsciiHex == (48..57) \cup (65..70) \cup (97..102)

\* C23: inside a string, whatever byte b comes next: right after a backslash
\* that starts an escape, b is appended if it is one of " \ / b f n r t u
\* (and 'u' opens a \u escape of four digits) and is Corrupted otherwise;
\* while k of the four digits of a \u escape are missing, the buffer ends with
\* `\u` and the 4 - k hex digits read since, b is appended and counted if it
\* is an ASCII hex digit and is Corrupted otherwise, '"' and '\' included;
\* and once the fourth digit was read the handler is in the plain string
\* again, where '"' closes the string and '\' starts an escape.
C23_EscapesInStrings ==
    (pc = "string" /\ loc.in_string) =>
       LET k == loc.in_escaped_unicode
           got == 4 - k
       IN  /\ k \in 0..4
           /\ ~(loc.in_escape /\ k > 0)
           /\ loc.in_escape => jt.processed[jt.cur] = CHAR_ESCAPE
           /\ k > 0 =>
                 /\ jt.cur >= got + 3
                 /\ jt.processed[jt.cur - got - 1] = CHAR_ESCAPE
                 /\ jt.processed[jt.cur - got] = CHAR_U
                 /\ \A i \in (jt.cur - got + 1)..jt.cur : jt.processed[i] \in AsciiHex
           /\ \A b \in 0..255 :
                 LET r == string_byte(jt, loc, b)
                     appended == r.cause = Continue /\ r.jt = advance(jt, b)
                     corrupted == r.cause = Corrupted(b) /\ r.jt = jt
                 IN  /\ (loc.in_escape /\ b \in Escapable) =>
                           /\ appended
                           /\ r.loc = [loc EXCEPT !.in_escape = FALSE,
                                                  !.in_escaped_unicode =
                                                      IF b = CHAR_U THEN 4 ELSE 0]
                     /\ (loc.in_escape /\ b \notin Escapable) => corrupted
                     /\ (k > 0 /\ b \in AsciiHex) =>
                           /\ appended
                           /\ r.loc = [loc EXCEPT !.in_escaped_unicode = k - 1]
                     /\ (k > 0 /\ b \notin AsciiHex) => corrupted
                     /\ (k = 0 /\ ~loc.in_escape /\ b = CHAR_QUOT_MARK) =>
                           (appended /\ r.loc = [loc EXCEPT !.in_string = FALSE])
                     /\ (k = 0 /\ ~loc.in_escape /\ b = CHAR_ESCAPE) =>
                           (appended /\ r.loc = [loc EXCEPT !.in_escape = TRUE])

\* The candidate of the eight bytes `[`, `"`, backslash, `u`, `a`, `a`, `a`,
\* `a` is in the string handler: the fourth hex digit of the escape was read
\* and the handler is in the plain string again.
C23_Witness ==
    /\ pc = "string"
    /\ loc.in_string /\ ~loc.in_escape /\ loc.in_escaped_unicode = 0
    /\ SubSeq(jt.processed, 1, jt.cur)
          = << CHAR_LEFT_SQUARE_BRACKET, CHAR_QUOT_MARK, CHAR_ESCAPE, CHAR_U,
               CHAR_A, CHAR_A, CHAR_A, CHAR_A >>

\* C24: when hunt dispatches a closer and the top of the nest stack is not
\* its opener, the handler returns Corrupted at that closer without a read,
\* and the tracker (cur, partial_close_end, the nest stack, the buffer) is as
\* it was: the closer is not appended and the bookmark does not move.
C24_FailedPopChangesNothing ==
    [][(/\ pc = "hunt"
        /\ ch \in {CHAR_RIGHT_SQUARE_BRACKET, CHAR_RIGHT_CURLY_BRACKET}
        /\ last_ident(jt) # Some(ch - 2))
          => /\ pc' = "parse_match"
             /\ res' = Corrupted(ch)
             /\ jt' = jt
             /\ input' = input]_vars

\* The candidate `[[]` met '}': the loop after the inner ']' handed it to
\* hunt, the pop of '{' failed on the top '[', and the bookmark is still on
\* the inner ']'.
C24_Witness ==
    /\ pc = "parse_match"
    /\ res = Corrupted(CHAR_RIGHT_CURLY_BRACKET)
    /\ SubSeq(jt.processed, 1, jt.cur)
          = << CHAR_LEFT_SQUARE_BRACKET, CHAR_LEFT_SQUARE_BRACKET,
               CHAR_RIGHT_SQUARE_BRACKET >>
    /\ jt.partial_close_end = 2
    /\ jt.cur_ident_level = 1

\* Where a reader of the first n bytes of buffer buf stands: outside a string,
\* inside one, or behind a backslash inside one.
Lexed(buf, n) ==
    LET st[i \in 0..n] ==
          IF i = 0 THEN "out"
          ELSE IF st[i - 1] = "out"
                 THEN IF buf[i] = CHAR_QUOT_MARK THEN "in" ELSE "out"
          ELSE IF st[i - 1] = "esc" THEN "in"
          ELSE IF buf[i] = CHAR_ESCAPE THEN "esc"
          ELSE IF buf[i] = CHAR_QUOT_MARK THEN "out"
          ELSE "in"
    IN  st

\* The 1-based positions of the openers and closers in tracker t's buffer:
\* the bracket bytes that are not characters of a string.
Structural(t) ==
    LET st == Lexed(t.processed, t.cur)
    IN  { i \in 1..t.cur : st[i - 1] = "out" /\ t.processed[i] \in Brackets }

\* hunt is running, or has returned, on a candidate whose opener was pushed.
InCandidate == pc \in Handling \cup {"hunt", "parse_match"} /\ jt.cur > 0

\* C25: inside hunt after the candidate's first push, partial_close_end < cur
\* and the byte at partial_close_end is the opener or closer appended last
\* (a bracket byte inside a string is a character, not an opener or closer);
\* partial_close_end changes only when hunt dispatches an opener or a closer
\* and the push or pop succeeds, which sets it to the offset of that byte, or
\* when parse resets the tracker: no other append moves it.
C25_BookmarkIsLastBracket ==
    /\ [](InCandidate =>
            /\ jt.partial_close_end < jt.cur
            /\ jt.processed[jt.partial_close_end + 1] \in Brackets
            /\ \A i \in Structural(jt) : i <= jt.partial_close_end + 1
            /\ jt.partial_close_end + 1 \in Structural(jt))
    /\ [][jt'.partial_close_end # jt.partial_close_end =>
            \/ /\ pc = "parse_match"
               /\ jt' = quick_clean(jt)
            \/ /\ pc = "hunt"
               /\ ch \in Brackets
               /\ jt'.cur_ident_level
                     = jt.cur_ident_level + (IF ch \in Openers THEN 1 ELSE -1)
               /\ jt'.partial_close_end = jt.cur
               /\ jt'.cur = jt.cur + 1
               /\ jt'.processed[jt.cur + 1] = ch]_vars
    /\ [][(pc = "hunt" /\ ch \in Brackets
              /\ jt'.cur_ident_level # jt.cur_ident_level)
            => jt'.partial_close_end = jt.cur]_vars

\* The string handler is in the candidate `[[],"]`, in the string after its
\* ']': the bookmark is on the closer of the inner array, three appends back.
C25_Witness ==
    /\ pc = "string"
    /\ SubSeq(jt.processed, 1, jt.cur)
          = << CHAR_LEFT_SQUARE_BRACKET, CHAR_LEFT_SQUARE_BRACKET,
               CHAR_RIGHT_SQUARE_BRACKET, CHAR_COMMA, CHAR_QUOT_MARK,
               CHAR_RIGHT_SQUARE_BRACKET >>
    /\ jt.partial_close_end = 2

\* C26: when hunt has returned Completed the nest stack is empty, when it has
\* returned Corrupted or Exhausted the nest stack is not empty, and while a
\* handler runs, and whenever hunt dispatches a byte after the candidate's
\* first push, the nest stack is not empty.
C26_NestEmptyIffCompleted ==
    /\ pc = "parse_match" => (res.tag = "Completed" <=> jt.cur_ident_level = 0)
    /\ pc = "parse_match" => res.tag \in {"Completed", "Corrupted", "Exhausted"}
    /\ pc \in Handling => jt.cur_ident_level > 0
    /\ (pc = "hunt" /\ jt.cur > 0) => jt.cur_ident_level > 0
    /\ \A k \in 1..Len(cands) :
          cands[k].status = "completed" <=> cands[k].nest = << >>

\* hunt returned Corrupted with one container open and the bookmark past the
\* candidate's opener, after a first candidate that it returned Completed on.
C26_Witness ==
    /\ pc = "parse_match"
    /\ res.tag = "Corrupted"
    /\ jt.cur_ident_level = 1
    /\ jt.partial_close_end > 0
    /\ Len(cands) = 1
    /\ cands[1].status = "completed"

\* The greatest element of a non-empty set of numbers.
Greatest(S) == CHOOSE x \in S : \A y \in S : y <= x

\* The candidate's text as far as in_key has seen it: the buffer, and the '"'
\* a handler has found and handed to hunt, which the string handler appends.
KeyText ==
    SubSeq(jt.processed, 1, jt.cur)
      \o (IF pc = "hunt" /\ ch = CHAR_QUOT_MARK THEN << ch >> ELSE << >>)

\* The text ends in the key of a member of the object on top of the nest
\* stack with no ':' after it: its last string opens right after '{' or ','
\* (whitespace apart) and only whitespace follows the string.
KeyPending ==
    LET buf == KeyText
        n == Len(buf)
        st == Lexed(buf, n)
        quotes == { i \in 1..n : st[i - 1] = "out" /\ buf[i] = CHAR_QUOT_MARK }
    IN  /\ quotes # {}
        /\ last_ident(jt) = Some(CHAR_LEFT_CURLY_BRACKET)
        /\ LET q == Greatest(quotes)
               before == { j \in 1..(q - 1) : buf[j] \notin Whitespace }
           IN  /\ before # {}
               /\ buf[Greatest(before)] \in {CHAR_LEFT_CURLY_BRACKET, CHAR_COMMA}
               /\ \A i \in (q + 1)..n : st[i - 1] = "out" => buf[i] \in Whitespace

\* C27: in_key is set exactly while the text ends in a pending key, that is
\* from the '"' found after '{' or after a ',' of an object until the ':'
\* after that string is dispatched; and after a closed string, whatever byte b
\* comes next: whitespace is appended; with an object on top and in_key set
\* only ':' is Found, with an object on top and in_key unset only ',' and
\* '}' are Found, with an array on top only ',' and ']' are Found whatever
\* in_key is; every other byte is Corrupted.
C27_InKeySpansTheKey ==
    /\ pc # "panicked" =>
          (jt.in_key <=> (KeyPending \/ (pc = "hunt" /\ ch = CHAR_COLON)))
    /\ (pc = "string" /\ ~loc.in_string) =>
          \A b \in 0..255 : \A key \in BOOLEAN :
             LET t == [jt EXCEPT !.in_key = key]
                 r == string_byte(t, loc, b)
                 top == last_ident(jt)[1]
                 accepted ==
                    IF top = CHAR_LEFT_SQUARE_BRACKET
                      THEN {CHAR_COMMA, CHAR_RIGHT_SQUARE_BRACKET}
                    ELSE IF key THEN {CHAR_COLON}
                    ELSE {CHAR_COMMA, CHAR_RIGHT_CURLY_BRACKET}
             IN  /\ top \in Openers
                 /\ r.cause = IF b \in Whitespace THEN Continue
                              ELSE IF b \in accepted THEN Found(b)
                              ELSE Corrupted(b)
                 /\ r.jt = IF b \in Whitespace THEN advance(t, b) ELSE t

\* The string handler is in the key that follows the ',' of the object
\* `{"":1,` and in_key is set.
C27_Witness ==
    /\ pc = "string"
    /\ jt.in_key
    /\ SubSeq(jt.processed, 1, jt.cur)
          = << CHAR_LEFT_CURLY_BRACKET, CHAR_QUOT_MARK, CHAR_QUOT_MARK, CHAR_COLON,
               CHAR_ONE, CHAR_COMMA, CHAR_QUOT_MARK >>

\* `{"",`: a ',' after a key is Corrupted.
C27_WitnessCommaAfterKey ==
    /\ pc = "parse_match"
    /\ res = Corrupted(CHAR_COMMA)
    /\ jt.in_key
    /\ SubSeq(jt.processed, 1, jt.cur)
          = << CHAR_LEFT_CURLY_BRACKET, CHAR_QUOT_MARK, CHAR_QUOT_MARK >>

\* `{"":"":`: a ':' after a string value is Corrupted.
C27_WitnessColonAfterValue ==
    /\ pc = "parse_match"
    /\ res = Corrupted(CHAR_COLON)
    /\ ~jt.in_key
    /\ SubSeq(jt.processed, 1, jt.cur)
          = << CHAR_LEFT_CURLY_BRACKET, CHAR_QUOT_MARK, CHAR_QUOT_MARK, CHAR_COLON,
               CHAR_QUOT_MARK, CHAR_QUOT_MARK >>

\* parse calls scout and scout finds an opener.
ScoutFinds ==
    /\ pc = "parse_loop"
    /\ ~(lastb # None /\ lastb[1] \in Openers)
    /\ pc' = "hunt"

C29_NestDepthBounded ==
    /\ [](jt.cur_ident_level <= max_ident_depth)
    /\ [](Len(jt.ident_levels) = max_ident_depth)
    /\ [](pc = "panicked" => \A i \in 1..Len(writes) : writes[i].cand <= Len(cands))
    /\ [][(pc = "hunt" /\ ch \in Openers /\ jt.cur_ident_level = max_ident_depth)
            => /\ pc' = "panicked"
               /\ UNCHANGED << json_writer, report_writer, writes, cands, input >>]_vars
    /\ [][pc # "panicked"]_vars

\* The carver panicked on the opener that followed max_ident_depth openers, in
\* a candidate long enough to be reported and repaired had it been Corrupted.
C29_Witness ==
    /\ pc = "panicked"
    /\ ch \in Openers
    /\ jt.cur_ident_level = max_ident_depth
    /\ jt.cur = max_ident_depth
    /\ incomplete_is_reported(jt, min_size)
    /\ incomplete_is_fixed(jt, min_size, fix_incomplete)
    /\ writes = << >>

\* C30: whenever hunt dispatches a ',' or a '"', and while the comma handler
\* or the string handler runs, the nest stack is not empty and its top is '['
\* or '{': handle_comma's two unreachable!() arms and the unwrap() of
\* last_ident() in handle_string are never executed, so the only panic hunt
\* can end in is the one of an opener on a full nest stack.
C30_CommaAndStringHaveAContainer ==
    /\ (pc = "hunt" /\ ch \in {CHAR_COMMA, CHAR_QUOT_MARK}) =>
          (jt.cur_ident_level > 0 /\ last_ident(jt)[1] \in Openers)
    /\ pc \in {"comma", "string"} =>
          (jt.cur_ident_level > 0 /\ last_ident(jt)[1] \in Openers)
    /\ pc = "string" =>
          \A b \in reader.alphabet : string_byte(jt, loc, b).cause # Panicked
    /\ (pc = "panicked" /\ jt.cur > 0) =>
          (ch \in Openers /\ jt.cur_ident_level = max_ident_depth)

\* The comma handler runs on the ',' after the first member of an object.
C30_Witness ==
    /\ pc = "comma"
    /\ last_ident(jt) = Some(CHAR_LEFT_CURLY_BRACKET)
    /\ SubSeq(jt.processed, 1, jt.cur)
          = << CHAR_LEFT_CURLY_BRACKET, CHAR_QUOT_MARK, CHAR_QUOT_MARK, CHAR_COLON,
               CHAR_ONE, CHAR_COMMA >>

\* The string handler runs on the second element of an array inside an array.
C30_WitnessArray ==
    /\ pc = "string"
    /\ last_ident(jt) = Some(CHAR_LEFT_SQUARE_BRACKET)
    /\ SubSeq(jt.processed, 1, jt.cur)
          = << CHAR_LEFT_SQUARE_BRACKET, CHAR_LEFT_SQUARE_BRACKET, CHAR_QUOT_MARK,
               CHAR_QUOT_MARK, CHAR_COMMA, CHAR_QUOT_MARK >>

\* C31: parse's offsets never go below zero.  `start + read - 1` is evaluated
\* with start + read >= 1: the head of the loop never panics, and when it
\* reuses a corrupting opener, where read = 0, start >= 1.  `start + cur - 1`
\* is evaluated, in the three arms of the match on hunt's result, with
\* cur >= 1; and start and every offset recorded are natural numbers.
C31_OffsetsNeverUnderflow ==
    /\ [](start >= 0)
    /\ []((pc = "parse_loop" /\ lastb # None /\ lastb[1] \in Openers) => start >= 1)
    /\ [](pc = "parse_match" => (jt.cur >= 1 /\ start + jt.cur - 1 >= 0))
    /\ [](\A k \in 1..Len(cands) :
             /\ cands[k].start >= 0
             /\ cands[k].end >= cands[k].start
             /\ cands[k].partial_end >= cands[k].start)
    /\ [][pc = "parse_loop" => pc' # "panicked"]_vars

\* parse reused the opener that corrupted a candidate of one byte at offset
\* 0: it evaluated `start + read - 1` with start = 1 and read = 0.
C31_Witness ==
    /\ pc = "hunt"
    /\ lastb = Some(ch)
    /\ ch \in Openers
    /\ jt.cur = 0
    /\ start = 1
    /\ Len(cands) = 1
    /\ cands[1].cur = 1

============================================================================
